---- MODULE Spec2Model ----
(***************************************************************************)
(* Photo Diary backend (photo-app/backend/public/script.js, lines 25-255): *)
(* the photos.json record store, the random selection with month/year      *)
(* filters, the two upload routes and the admin guard, as a state machine. *)
(*                                                                         *)
(* JavaScript strings that the code inspects character by character (the   *)
(* Authorization header, the month and year query values) are sequences of *)
(* one-character strings.  A JavaScript value that may be undefined is a    *)
(* record with a kind field k.                                             *)
(***************************************************************************)
EXTENDS Integers, Sequences, FiniteSets, TLC

\* ------------------------------------------------------------------ bounds

\* Records in photos.json plus uploads in flight beyond which no further
\* upload is taken up (the program sets no limit).
MaxUploads == 2
\* Length of the record list found in photos.json at start-up.
MaxStored == 2
\* Ticks per calendar month: the resolution of the model's clock.
TicksPerMonth == 2

TicksPerYear == 12 * TicksPerMonth

\* ------------------------------------------------------- JavaScript values

Undefined == [k |-> "undefined"]
Null == [k |-> "null"]
Str(s) == [k |-> "str", s |-> s]
Num(n) == [k |-> "num", n |-> n]
NaN == [k |-> "nan"]

\* An ISO-8601 string as Date.prototype.toISOString writes it: the UTC
\* calendar fields of the instant (mo is 1-based, as in the text).
Iso(y, mo, d) == [k |-> "iso", y |-> y, mo |-> mo, d |-> d]

\* ToBoolean: undefined, null, "", NaN and 0 are falsy; every other value,
\* a non-empty string included, is truthy.
Truthy(v) ==
  CASE v.k = "undefined" -> FALSE
    [] v.k = "null" -> FALSE
    [] v.k = "nan" -> FALSE
    [] v.k = "num" -> v.n # 0
    [] v.k = "str" -> v.s # ""
    [] v.k = "chars" -> v.s # <<>>
    [] OTHER -> TRUE

\* a || b
Or(a, b) == IF Truthy(a) THEN a ELSE b

\* a === b on numbers: NaN equals nothing, itself included.
StrictEqNum(a, b) == a.k = "num" /\ b.k = "num" /\ a.n = b.n

\* A string held as its characters.
Chars(s) == [k |-> "chars", s |-> s]

Digits == <<"0", "1", "2", "3", "4", "5", "6", "7", "8", "9">>
IsDigit(c) == \E i \in 1..10 : Digits[i] = c
DigitVal(c) == (CHOOSE i \in 1..10 : Digits[i] = c) - 1

RECURSIVE SkipSpaces(_)
SkipSpaces(s) ==
  IF s # <<>> /\ Head(s) = " " THEN SkipSpaces(Tail(s)) ELSE s

RECURSIVE DigitPrefix(_, _, _)
\* <<number of leading digits of s, their decimal value>>
DigitPrefix(s, n, acc) ==
  IF s # <<>> /\ IsDigit(Head(s))
  THEN DigitPrefix(Tail(s), n + 1, acc * 10 + DigitVal(Head(s)))
  ELSE <<n, acc>>

\* parseInt(String(v), 10) of a query value: leading blanks skipped, an
\* optional sign, then the longest run of digits; NaN when there is none.
parseInt(v) ==
  IF v.k # "chars" THEN NaN
  ELSE LET t == SkipSpaces(v.s)
           signed == t # <<>> /\ Head(t) \in {"-", "+"}
           u == IF signed THEN Tail(t) ELSE t
           p == DigitPrefix(u, 0, 0)
       IN IF p[1] = 0 THEN NaN
          ELSE Num(IF signed /\ Head(t) = "-" THEN 0 - p[2] ELSE p[2])

\* ------------------------------------------------------------------- dates

\* An instant is a number of ticks since the epoch, 1970-01 UTC.
Instant(y, mo, d) == (y - 1970) * TicksPerYear + (mo - 1) * TicksPerMonth + d

\* new Date().toISOString() at instant t.
toISOString(t) ==
  Iso(1970 + t \div TicksPerYear,
      (t % TicksPerYear) \div TicksPerMonth + 1,
      t % TicksPerMonth)

\* new Date(v): an ISO string is parsed to its instant, a number is taken
\* as the instant, any other string is an Invalid Date.
NewDate(v) ==
  CASE v.k = "iso" -> [valid |-> TRUE, t |-> Instant(v.y, v.mo, v.d)]
    [] v.k = "num" -> [valid |-> TRUE, t |-> v.n]
    [] OTHER -> [valid |-> FALSE, t |-> 0]

\* Date.prototype.getFullYear / getMonth: the calendar fields in the
\* server's local time zone, off ticks east of UTC; NaN for an Invalid Date.
getFullYear(d, off) ==
  IF d.valid THEN Num(1970 + (d.t + off) \div TicksPerYear) ELSE NaN

getMonth(d, off) ==
  IF d.valid THEN Num(((d.t + off) % TicksPerYear) \div TicksPerMonth) ELSE NaN

\* ------------------------------------------------------------ photos.json

\* The text of a file: garbage that JSON.parse rejects, or JSON text (compact,
\* or indented by two as JSON.stringify(list, null, 2) writes it) of a value
\* that is an array of records or something else ({}, a number, ...).
Garbage == [syntax |-> "garbage", isArray |-> FALSE, items |-> <<>>]
JsonText(syntax, isArray, items) ==
  [syntax |-> syntax, isArray |-> isArray, items |-> items]

\* What is at photosJsonPath: nothing, something that can be neither read nor
\* written as a file (a directory of that name), a file whose mode lets the
\* server write it but not read it, or a file with its text.
Missing == [state |-> "missing"]
Unreadable == [state |-> "unreadable"]
WriteOnly == [state |-> "writeOnly"]
File(text) == [state |-> "file", text |-> text]

\* JSON.stringify(list, null, 2)
JSONstringify(list) == JsonText("pretty", TRUE, list)

\* readPhotosList(): the array in the file, [] when reading or parsing throws
\* or the value parsed is not an array.
readPhotosList(f) ==
  IF f.state # "file" THEN <<>>
  ELSE IF f.text.syntax = "garbage" THEN <<>>
  ELSE IF f.text.isArray THEN f.text.items ELSE <<>>

\* fs.writeFileSync throws on a path it cannot write.
writeThrows(f) == f.state = "unreadable"

\* fs.appendFileSync in place of writeFileSync: the new text follows the old
\* one, and the two together are no JSON.
writePhotosListAppending(f, list) ==
  IF f.state = "file" THEN File(Garbage) ELSE File(JSONstringify(list))

\* writePhotosList(list): what is at the path after a write that succeeds.
writePhotosList(f, list) == File(JSONstringify(list))

\* ensurePhotosJson(): a missing file is created holding [].
ensurePhotosJson(f) ==
  IF f.state = "missing" THEN writePhotosList(f, <<>>) ELSE f

\* ----------------------------------------------------------------- records

\* A file name in uploadsDir: a stem and an extension.
Filename(id, ext) == [id |-> id, ext |-> ext]

\* The template strings `/uploads/${name}` and `/photos/${name}`.
Url(prefix, name) == [k |-> "url", prefix |-> prefix, file |-> name]

\* A record of photos.json; a property the object lacks reads as undefined.
PhotoRecord(filename, url, uploadedAt, dateUploaded) ==
  [filename |-> filename, url |-> url,
   uploadedAt |-> uploadedAt, dateUploaded |-> dateUploaded]

\* String.prototype.toLowerCase on the extensions that occur.
toLowerCase(ext) ==
  CASE ext = ".PNG" -> ".png"
    [] ext = ".JPG" -> ".jpg"
    [] OTHER -> ext

ImageExts == {".jpg", ".jpeg", ".png", ".gif", ".webp", ".avif"}

\* multer's filename callback: a random stem and the original extension in
\* lower case when it is an image extension, ".jpg" otherwise.
safeExt(originalExt) ==
  IF toLowerCase(originalExt) \in ImageExts
  THEN toLowerCase(originalExt) ELSE ".jpg"

\* /\.(jpe?g|png|gif|webp|avif)$/i.test(name)
isImageName(name) == toLowerCase(name.ext) \in ImageExts

\* new Date(p.uploadedAt || 0): the legacy dateUploaded forgotten.
effectiveDateNoLegacy(p) == NewDate(Or(p.uploadedAt, Num(0)))

\* new Date(p.uploadedAt || p.dateUploaded || 0)
effectiveDate(p) == NewDate(Or(Or(p.uploadedAt, p.dateUploaded), Num(0)))

\* ------------------------------------------------------------------- state

VARIABLES
  env,         \* process.env: [ADMIN_TOKEN |-> undefined or a string]
  upload,      \* whether require('multer') succeeded and the upload routes exist
  tz,          \* the server's time zone, in ticks east of UTC
  photosJson,  \* what is at photosJsonPath
  uploadsDir,  \* the file names in uploadsDir
  reqs,        \* the upload requests in flight, by connection
  resp         \* the response to the latest GET request

vars == <<env, upload, tz, photosJson, uploadsDir, reqs, resp>>

\* The connections that carry upload requests.
Requests == {"r1", "r2"}

\* const ADMIN_TOKEN = process.env.ADMIN_TOKEN || null
ADMIN_TOKEN == Or(env.ADMIN_TOKEN, Null)

Bearer == <<"B", "e", "a", "r", "e", "r", " ">>

\* String.prototype.startsWith and slice(n)
startsWith(s, prefix) ==
  Len(s) >= Len(prefix) /\ SubSeq(s, 1, Len(prefix)) = prefix
slice(s, n) == SubSeq(s, n + 1, Len(s))

\* requireAdmin taking the token as header.slice(7) whatever the header
\* starts with.
requireAdminAlwaysSlices(authorization) ==
  IF ~Truthy(ADMIN_TOKEN)
  THEN [next |-> FALSE, status |-> 500, error |-> "Server missing ADMIN_TOKEN"]
  ELSE LET header == Or(authorization, Chars(<<>>))
           token == slice(header.s, 7)
       IN IF token # ADMIN_TOKEN.s
          THEN [next |-> FALSE, status |-> 401, error |-> "Unauthorized"]
          ELSE [next |-> TRUE, status |-> 0, error |-> ""]

\* requireAdmin: the response it sends, or next.
requireAdmin(authorization) ==
  IF ~Truthy(ADMIN_TOKEN)
  THEN [next |-> FALSE, status |-> 500, error |-> "Server missing ADMIN_TOKEN"]
  ELSE LET header == Or(authorization, Chars(<<>>))
           token == IF startsWith(header.s, Bearer)
                    THEN slice(header.s, 7) ELSE header.s
       IN IF token # ADMIN_TOKEN.s
          THEN [next |-> FALSE, status |-> 401, error |-> "Unauthorized"]
          ELSE [next |-> TRUE, status |-> 0, error |-> ""]

\* --------------------------------------------------------------- selection

\* The year filter of /random-photo (the filter is skipped for a falsy value).
yearFilter(list, year, off) ==
  IF Truthy(year)
  THEN LET yr == parseInt(year)
           keep(p) == StrictEqNum(getFullYear(effectiveDate(p), off), yr)
       IN SelectSeq(list, keep)
  ELSE list

\* const m = mRaw - 1: every input taken as 1-12.
normalizeMonthOneBased(mRaw) ==
  IF mRaw.k = "num" THEN Num(mRaw.n - 1) ELSE mRaw

\* const m = (mRaw > 11 ? mRaw - 1 : mRaw) % 12: 13 wraps to January.
normalizeMonthWrapping(mRaw) ==
  IF mRaw.k = "num"
  THEN Num((IF mRaw.n > 11 THEN mRaw.n - 1 ELSE mRaw.n) % 12) ELSE mRaw

\* const m = mRaw > 11 ? mRaw - 1 : mRaw
normalizeMonth(mRaw) ==
  IF mRaw.k = "num" /\ mRaw.n > 11 THEN Num(mRaw.n - 1) ELSE mRaw

\* The month filter of /random-photo.
monthFilter(list, month, off) ==
  IF Truthy(month)
  THEN LET m == normalizeMonth(parseInt(month))
           keep(p) == StrictEqNum(getMonth(effectiveDate(p), off), m)
       IN SelectSeq(list, keep)
  ELSE list

\* The month filter run on list where the code runs it on filtered: the
\* year filter's work is thrown away when a month is given.
filterPhotosMonthOnList(list, query, off) ==
  IF Truthy(query.month)
  THEN monthFilter(list, query.month, off)
  ELSE yearFilter(list, query.year, off)

\* filtered, after both filters.
filterPhotos(list, query, off) ==
  monthFilter(yearFilter(list, query.year, off), query.month, off)

\* The answer of /random-photo with the url always derived from the name.
randomPhotoBodyDerivedUrl(pick) ==
  PhotoRecord(pick.filename, Url("/photos/", pick.filename),
              Or(pick.uploadedAt, pick.dateUploaded), Undefined)

\* The object /random-photo answers with for the record picked.
randomPhotoBody(pick) ==
  PhotoRecord(pick.filename,
              Or(pick.url, Url("/photos/", pick.filename)),
              Or(pick.uploadedAt, pick.dateUploaded),
              Undefined)

\* The object /random-photo answers with for a file picked from uploadsDir.
fallbackBody(randomFile) ==
  PhotoRecord(randomFile, Url("/photos/", randomFile), Undefined, Undefined)

imageFiles(files) == {name \in files : isImageName(name)}

NoResp == [route |-> "none"]
Response(route, query, status, error, body) ==
  [route |-> route, query |-> query, status |-> status,
   error |-> error, body |-> body]
NoQuery == [month |-> Undefined, year |-> Undefined]

\* ------------------------------------------------------------ GET handlers

\* GET /api/photos
ListPhotos ==
  /\ resp' = Response("/api/photos", NoQuery, 200, "",
                      readPhotosList(photosJson))
  /\ UNCHANGED <<env, upload, tz, photosJson, uploadsDir, reqs>>

\* GET /api/photos/random
ApiRandom ==
  LET list == readPhotosList(photosJson)
  IN /\ IF Len(list) = 0
        THEN resp' = Response("/api/photos/random", NoQuery, 404,
                              "No photos", Undefined)
        ELSE \E i \in 1..Len(list) :
               resp' = Response("/api/photos/random", NoQuery, 200, "", list[i])
     /\ UNCHANGED <<env, upload, tz, photosJson, uploadsDir, reqs>>

\* GET /random-photo?month=&year= .  The directory listing of the fallback is
\* the one fs.readdir takes for this request; readFails is its err.
RandomPhoto(query, readFails) ==
  LET list == readPhotosList(photosJson)
      filtered == filterPhotos(list, query, tz)
      images == imageFiles(uploadsDir)
  IN /\ IF Len(list) > 0
        THEN /\ ~readFails
             /\ IF Len(filtered) = 0
                THEN resp' = Response("/random-photo", query, 404,
                                      "No photos found for this filter",
                                      Undefined)
                ELSE \E i \in 1..Len(filtered) :
                       resp' = Response("/random-photo", query, 200, "",
                                        randomPhotoBody(filtered[i]))
        ELSE IF readFails
             THEN resp' = Response("/random-photo", query, 500,
                                   "Failed to read photos", Undefined)
             ELSE IF images = {}
                  THEN resp' = Response("/random-photo", query, 404,
                                        "No photos yet", Undefined)
                  ELSE \E randomFile \in images :
                         resp' = Response("/random-photo", query, 200, "",
                                          fallbackBody(randomFile))
     /\ UNCHANGED <<env, upload, tz, photosJson, uploadsDir, reqs>>

\* ----------------------------------------------------------------- uploads

\* A connection with no request on it.
Idle ==
  [pc |-> "idle", route |-> "", part |-> [kind |-> "none", ext |-> ""],
   file |-> Undefined, item |-> Undefined, overlap |-> FALSE]

\* The requests multer is working on or has handed a file.
InFlight == {j \in Requests : reqs[j].pc \in {"multer", "written"}}

\* A connection whose upload was stored and answered with success, until the
\* client closes it: the item stored, and whether another upload was in
\* flight with this one.
Stored(r, item) == [Idle EXCEPT !.pc = "done", !.item = item,
                                !.overlap = r.overlap]

\* The answer to an upload request, with what the handler read (list) and
\* made (item).
UploadResponse(route, status, error, body, list, item) ==
  [route |-> route, status |-> status, error |-> error, body |-> body,
   list |-> list, item |-> item]

\* What requireAdmin did with a request: the header it was given and the
\* answer it sent (status 0: none, it called next).
GuardResponse(authorization, guard) ==
  [route |-> "requireAdmin", authorization |-> authorization,
   next |-> guard.next, status |-> guard.status, error |-> guard.error]

\* multer takes up the request on connection i; a request in flight at that
\* moment overlaps it.
Admit(i, route, part) ==
  reqs' = [j \in Requests |->
             IF j = i
             THEN [Idle EXCEPT !.pc = "multer", !.route = route,
                               !.part = part, !.overlap = InFlight # {}]
             ELSE IF j \in InFlight
                  THEN [reqs[j] EXCEPT !.overlap = TRUE]
                  ELSE reqs[j]]

\* A connection is free and the run's budget of uploads is not used up.
CanArrive(i) ==
  /\ upload
  /\ reqs[i].pc = "idle"
  /\ Len(readPhotosList(photosJson)) + Cardinality(InFlight) < MaxUploads

\* The admin route with its middleware in the other order, upload.single
\* ahead of requireAdmin: the file is in uploadsDir before the guard answers.
AdminArriveStoresFirst(i, authorization, part) ==
  /\ CanArrive(i)
  /\ LET guard == requireAdmin(authorization)
     IN /\ IF guard.next
           THEN Admit(i, "/api/photos/upload", part) /\ UNCHANGED uploadsDir
           ELSE /\ UNCHANGED reqs
                /\ uploadsDir' =
                     IF part.kind = "image"
                     THEN uploadsDir \cup {Filename("0a", safeExt(part.ext))}
                     ELSE uploadsDir
        /\ resp' = GuardResponse(authorization, guard)
  /\ UNCHANGED <<env, upload, tz, photosJson>>

\* POST /api/photos/upload arrives: requireAdmin, then upload.single('photo').
AdminArrive(i, authorization, part) ==
  /\ CanArrive(i)
  /\ LET guard == requireAdmin(authorization)
     IN /\ IF guard.next
           THEN Admit(i, "/api/photos/upload", part)
           ELSE UNCHANGED reqs
        /\ resp' = GuardResponse(authorization, guard)
  /\ UNCHANGED <<env, upload, tz, photosJson, uploadsDir>>

\* POST /upload arrives: upload.single('photo') at once.
PublicArrive(i, part) ==
  /\ CanArrive(i)
  /\ Admit(i, "/upload", part)
  /\ resp' = NoResp
  /\ UNCHANGED <<env, upload, tz, photosJson, uploadsDir>>

\* multer's disk storage: a part that passed fileFilter is written to
\* uploadsDir under a name of crypto.randomBytes(12) and the safe extension.
MulterStore(i, id) ==
  /\ reqs[i].pc = "multer"
  /\ reqs[i].part.kind \in {"image", "tooLarge"}
  /\ LET name == Filename(id, safeExt(reqs[i].part.ext))
     IN /\ uploadsDir' = uploadsDir \cup {name}
        /\ reqs' = [reqs EXCEPT ![i].pc = "written",
                                ![i].file = [k |-> "file", filename |-> name]]
  /\ resp' = NoResp
  /\ UNCHANGED <<env, upload, tz, photosJson>>

\* The error middleware, for the errors multer passes on: a part fileFilter
\* refused, or a file beyond limits.fileSize (which multer removes again).
UploadError(i) ==
  /\ \/ /\ reqs[i].pc = "multer"
        /\ reqs[i].part.kind = "notImage"
        /\ reqs' = [reqs EXCEPT ![i] = Idle]
        /\ resp' = UploadResponse(reqs[i].route, 400,
             "Only image files are allowed (jpg, png, gif, webp, avif)",
             Undefined, <<>>, Undefined)
        /\ UNCHANGED uploadsDir
     \/ /\ reqs[i].pc = "written"
        /\ reqs[i].part.kind = "tooLarge"
        /\ reqs' = [reqs EXCEPT ![i] = Idle]
        /\ resp' = UploadResponse(reqs[i].route, 413, "File too large (max 25MB)",
                                  Undefined, <<>>, Undefined)
        /\ uploadsDir' = uploadsDir \ {reqs[i].file.filename}
  /\ UNCHANGED <<env, upload, tz, photosJson>>

\* multer is done with the request and calls the route's handler.
HandlerReady(i, route) ==
  /\ reqs[i].route = route
  /\ \/ reqs[i].pc = "multer" /\ reqs[i].part.kind = "none"
     \/ reqs[i].pc = "written" /\ reqs[i].part.kind = "image"

\* list.unshift(item) in place of push: the new record goes first.
unshift(list, item) == <<item>> \o list

\* list.push(item)
push(list, item) == Append(list, item)

\* The handler reading the list before its await on the upload rather than
\* after it: what an upload that was in flight with this one has stored
\* since is not in the list it appends to.
loadListEarly(i) ==
  LET rivals == {reqs[j].item :
                   j \in {c \in Requests :
                            c # i /\ reqs[c].pc = "done" /\ reqs[c].overlap}}
      keep(p) == p \notin rivals
  IN SelectSeq(readPhotosList(photosJson), keep)

\* const list = readPhotosList(), in the handler of the request on
\* connection i.
loadList(i) == readPhotosList(photosJson)

\* The item of the admin route and the item of the open route.
adminItem(file, now) ==
  PhotoRecord(file.filename, Url("/uploads/", file.filename),
              toISOString(now), Undefined)
publicItem(file, now) ==
  PhotoRecord(file.filename, Url("/photos/", file.filename),
              toISOString(now), toISOString(now))

\* The body of the open route's answer.
publicBody(item) ==
  [message |-> "Photo uploaded!",
   photo |-> [filename |-> item.filename, dateUploaded |-> item.dateUploaded]]

\* What the two upload handlers share: no file is a 400; otherwise the list
\* is read, the item pushed and the list written, all in one turn of the
\* event loop (readFileSync, writeFileSync).  A write that throws reaches
\* the error middleware, which answers 500 with the error's message.
Handle(i, item, status, body) ==
  LET file == reqs[i].file
      list == loadList(i)
  IN /\ IF ~Truthy(file)
        THEN /\ reqs' = [reqs EXCEPT ![i] = Idle]
             /\ resp' = UploadResponse(reqs[i].route, 400, "No file uploaded",
                                       Undefined, <<>>, Undefined)
             /\ UNCHANGED photosJson
        ELSE IF writeThrows(photosJson)
        THEN /\ reqs' = [reqs EXCEPT ![i] = Idle]
             /\ resp' = UploadResponse(reqs[i].route, 500,
                                       "EISDIR: illegal operation on a directory",
                                       Undefined, list, item)
             /\ UNCHANGED photosJson
        ELSE /\ photosJson' = writePhotosList(photosJson, push(list, item))
             /\ reqs' = [reqs EXCEPT ![i] = Stored(@, item)]
             /\ resp' = UploadResponse(reqs[i].route, status, "", body,
                                       list, item)
     /\ UNCHANGED <<env, upload, tz, uploadsDir>>

\* The handler of POST /api/photos/upload, at instant now.
AdminUpload(i, now) ==
  /\ HandlerReady(i, "/api/photos/upload")
  /\ LET item == IF Truthy(reqs[i].file)
                 THEN adminItem(reqs[i].file, now) ELSE Undefined
     IN Handle(i, item, 201, item)

\* The handler of POST /upload, at instant now.
PublicUpload(i, now) ==
  /\ HandlerReady(i, "/upload")
  /\ LET item == IF Truthy(reqs[i].file)
                 THEN publicItem(reqs[i].file, now) ELSE Undefined
     IN Handle(i, item, 200,
               IF Truthy(reqs[i].file) THEN publicBody(item) ELSE Undefined)

\* The client of a stored upload closes the connection.
Close(i) ==
  /\ reqs[i].pc = "done"
  /\ reqs' = [reqs EXCEPT ![i] = Idle]
  /\ resp' = NoResp
  /\ UNCHANGED <<env, upload, tz, photosJson, uploadsDir>>

\* ------------------------------------------------------------------ inputs

Tk == <<"t", "k">>

\* Values of process.env.ADMIN_TOKEN.
EnvTokens == {Undefined, Chars(<<>>), Chars(Tk), Chars(Bearer \o Tk)}

\* Values of the Authorization header.
Authorizations ==
  {Undefined, Chars(Tk), Chars(Bearer \o Tk), Chars(Bearer \o Bearer \o Tk),
   Chars(<<"b", "e", "a", "r", "e", "r", " ">> \o Tk), Chars(Bearer),
   Chars(Tk \o <<"x">>)}

\* The multipart body: no 'photo' part, an image part (with the extension of
\* its original name), a part that is no image, an image beyond 25 MB.
Parts ==
  {[kind |-> "none", ext |-> ""], [kind |-> "image", ext |-> ".PNG"],
   [kind |-> "notImage", ext |-> ".txt"], [kind |-> "tooLarge", ext |-> ".PNG"]}

\* Stems crypto.randomBytes(12).toString('hex') may give.
NameIds == {"0a", "ff"}

\* Instants new Date() may give.
Clock == {Instant(2024, 1, 0)}

TimeZones == {-1, 0, 1}

\* A record only an earlier version wrote: the legacy dateUploaded and no url.
LegacyRecord ==
  PhotoRecord(Filename("old", ".jpg"), Undefined, Undefined, Iso(2024, 2, 0))

\* Records photos.json may hold: one of each upload route (the first tick of
\* January 2024, the last tick of December 2024), the legacy one (February
\* 2024), one with no timestamp at all, one whose uploadedAt is no date.
StoredRecords ==
  {adminItem([filename |-> Filename("0a", ".png")], Instant(2024, 1, 0)),
   publicItem([filename |-> Filename("ff", ".jpg")],
              Instant(2024, 12, TicksPerMonth - 1)),
   LegacyRecord,
   PhotoRecord(Filename("bare", ".gif"),
               Url("/photos/", Filename("bare", ".gif")), Undefined, Undefined),
   PhotoRecord(Filename("odd", ".png"), Undefined, Str("yesterday"), Undefined)}

RECURSIVE SeqsUpTo(_, _)
SeqsUpTo(S, n) ==
  IF n = 0 THEN {<<>>}
  ELSE LET shorter == SeqsUpTo(S, n - 1)
       IN shorter \cup {Append(l, x) : l \in shorter, x \in S}

\* What may be at photosJsonPath besides an array of records.
BrokenStores ==
  {Missing, Unreadable, WriteOnly, File(Garbage),
   File(JsonText("compact", FALSE, <<>>))}

\* What may be at photosJsonPath.
DiskStates ==
  BrokenStores
  \cup {File(JsonText(sx, TRUE, l)) :
          sx \in {"compact", "pretty"}, l \in SeqsUpTo(StoredRecords, MaxStored)}

\* Files put into uploadsDir by hand.
ManualFiles == {Filename("IMG_1", ".JPG"), Filename("notes", ".txt")}

Years == {Undefined, Chars(<<>>), Chars(<<"2", "0", "2", "4">>),
          Chars(<<"2", "0", "2", "3">>), Chars(<<"1", "9", "7", "0">>),
          Chars(<<"x">>)}
Months == {Undefined, Chars(<<>>), Chars(<<"0">>), Chars(<<"1">>),
           Chars(<<"1", "1">>), Chars(<<"1", "2">>), Chars(<<"1", "3">>)}
Queries == [month : Months, year : Years]

\* ---------------------------------------------------------- specifications

\* The state once the module has run to app.listen: the environment is read,
\* photos.json exists (ensurePhotosJson) and no request has arrived.
Boot(tokens, multer, zones, disks, dirs) ==
  /\ env \in [ADMIN_TOKEN : tokens]
  /\ upload \in multer
  /\ tz \in zones
  /\ photosJson \in {ensurePhotosJson(f) : f \in disks}
  /\ uploadsDir \in dirs
  /\ reqs = [i \in Requests |-> Idle]
  /\ resp = NoResp

\* The whole server, with or without multer, started in UTC on a store that
\* is missing, broken or holds the legacy record.
Init ==
  Boot({Undefined, Chars(Tk)}, BOOLEAN, {0},
       BrokenStores \cup {File(JsonText("compact", TRUE, <<LegacyRecord>>))},
       {{}, ManualFiles})

Next ==
  \/ ListPhotos
  \/ ApiRandom
  \/ \E readFails \in BOOLEAN : RandomPhoto(NoQuery, readFails)
  \/ \E i \in Requests, a \in {Undefined, Chars(Bearer \o Tk)}, part \in Parts :
       AdminArrive(i, a, part)
  \/ \E i \in Requests, part \in Parts : PublicArrive(i, part)
  \/ \E i \in Requests, id \in NameIds : MulterStore(i, id)
  \/ \E i \in Requests : UploadError(i)
  \/ \E i \in Requests, now \in Clock : AdminUpload(i, now)
  \/ \E i \in Requests, now \in Clock : PublicUpload(i, now)
  \/ \E i \in Requests : Close(i)

Spec == Init /\ [][Next]_vars

\* The admin route alone, under every value of ADMIN_TOKEN and of the
\* Authorization header.
InitAuth == Boot(EnvTokens, {TRUE}, {0}, {Missing}, {{}})

NextAuth ==
  \/ \E i \in Requests, a \in Authorizations, part \in Parts :
       AdminArrive(i, a, part)
  \/ \E i \in Requests, id \in NameIds : MulterStore(i, id)
  \/ \E i \in Requests : UploadError(i)
  \/ \E i \in Requests, now \in Clock : AdminUpload(i, now)
  \/ \E i \in Requests : Close(i)

SpecAuth == InitAuth /\ [][NextAuth]_vars

\* The GET routes alone, on a server without multer whose photos.json and
\* uploadsDir are kept by hand, in every time zone and under every query.
\* /random-photo looks into uploadsDir only when it finds no record.
InitSelect ==
  \/ Boot({Undefined}, {FALSE}, TimeZones,
          {File(JSONstringify(l)) : l \in SeqsUpTo(StoredRecords, MaxStored)},
          {{}})
  \/ Boot({Undefined}, {FALSE}, TimeZones, BrokenStores,
          {{}, ManualFiles, {Filename("notes", ".txt")}})

NextSelect ==
  \/ ListPhotos
  \/ ApiRandom
  \/ \E query \in Queries, readFails \in BOOLEAN : RandomPhoto(query, readFails)

SpecSelect == InitSelect /\ [][NextSelect]_vars

\* writePhotosList(readPhotosList()) on whatever is at photosJsonPath; a
\* write that throws leaves it as it was.
SaveLoad ==
  /\ resp.route = "none"
  /\ photosJson' = IF writeThrows(photosJson) THEN photosJson
                   ELSE writePhotosList(photosJson, readPhotosList(photosJson))
  /\ resp' = [route |-> "save(load())", before |-> photosJson]
  /\ UNCHANGED <<env, upload, tz, uploadsDir, reqs>>

\* The record store alone: every content of photosJsonPath, before
\* ensurePhotosJson has run.
InitStore ==
  /\ env = [ADMIN_TOKEN |-> Undefined]
  /\ upload = FALSE
  /\ tz = 0
  /\ photosJson \in DiskStates
  /\ uploadsDir = {}
  /\ reqs = [i \in Requests |-> Idle]
  /\ resp = NoResp

SpecStore == InitStore /\ [][SaveLoad]_vars

\* ------------------------------------------------------------------ claims

\* The list load() returns now.
RecordList == readPhotosList(photosJson)

Range(seq) == {seq[n] : n \in DOMAIN seq}

\* The secret is configured: ADMIN_TOKEN is set to a non-empty string.
SecretConfigured ==
  env.ADMIN_TOKEN.k = "chars" /\ env.ADMIN_TOKEN.s # <<>>

\* The Authorization header value (empty when the header is absent) with a
\* leading "Bearer " removed when present.
Presented(authorization) ==
  LET value == IF authorization.k = "chars" THEN authorization.s ELSE <<>>
  IN IF Len(value) >= 7 /\ SubSeq(value, 1, 7) = Bearer
     THEN SubSeq(value, 8, Len(value)) ELSE value

\* C1: POST /api/photos/upload.  With no admin secret configured every
\* request, whatever its token, is answered 500 "Server missing ADMIN_TOKEN"
\* and none is passed on; with a secret configured a request is passed on to
\* the upload handler if and only if its Authorization header value, after
\* removing a leading "Bearer " when present, equals the secret, and every
\* other request (one without the header included) is answered 401.
C1_AdminGuard ==
  /\ resp.route = "requireAdmin" =>
       IF ~SecretConfigured
       THEN /\ ~resp.next
            /\ resp.status = 500
            /\ resp.error = "Server missing ADMIN_TOKEN"
       ELSE /\ resp.next <=> Presented(resp.authorization) = env.ADMIN_TOKEN.s
            /\ ~resp.next => resp.status = 401 /\ resp.error = "Unauthorized"
            /\ resp.next => resp.status = 0
  /\ \A i \in Requests :
       reqs[i].route = "/api/photos/upload" => SecretConfigured

\* A request with the raw secret as its header has been passed on, where the
\* secret itself begins with "Bearer ".
C1_Witness ==
  /\ resp.route = "requireAdmin"
  /\ resp.next
  /\ env.ADMIN_TOKEN = Chars(Bearer \o Tk)
  /\ resp.authorization = Chars(Bearer \o Bearer \o Tk)
  /\ \E i \in Requests : reqs[i].pc = "multer"

UploadRoutes == {"/api/photos/upload", "/upload"}

\* The response r is the success answer of an upload route.
UploadSucceeded(r) ==
  \/ r.route = "/api/photos/upload" /\ r.status = 201
  \/ r.route = "/upload" /\ r.status = 200

C2_Step ==
  LET old == readPhotosList(photosJson)
      new == readPhotosList(photosJson')
  IN /\ Len(new) >= Len(old)
     /\ SubSeq(new, 1, Len(old)) = old
     /\ UploadSucceeded(resp') =>
          /\ new = Append(old, resp'.item)
          /\ resp'.route = "/api/photos/upload" => resp'.body = resp'.item
          /\ resp'.route = "/upload" =>
               resp'.body.photo.filename = resp'.item.filename
     /\ new # old => UploadSucceeded(resp')
     /\ resp'.route = "/api/photos" => resp'.body = new
     /\ \A i \in Requests :
          reqs[i].pc = "done" =>
            reqs[i].item \in Range(old) /\ reqs[i].item \in Range(new)

BothStored(i, j) ==
  \E m, n \in DOMAIN RecordList :
    m # n /\ RecordList[m] = reqs[i].item /\ RecordList[n] = reqs[j].item

\* Connections i and j hold uploads that were in flight together and were
\* both answered with success.
BothSucceeded(i, j) ==
  /\ i # j
  /\ reqs[i].pc = "done" /\ reqs[i].overlap
  /\ reqs[j].pc = "done" /\ reqs[j].overlap

NoFilter(query) ==
  query.month \in {Undefined, Chars(<<>>)} /\ query.year \in {Undefined, Chars(<<>>)}

\* The property is there: not undefined and not the empty string.
Has(v) == v # Undefined /\ v # Str("") /\ v # Chars(<<>>)

\* C8 as stated: on a non-empty list, random selection with no filter (GET
\* /random-photo without month and year, GET /api/photos/random) returns an
\* exact element of the stored list, nothing added, dropped or derived.
C8_ExactElement ==
  /\ resp.route = "/api/photos/random" /\ RecordList # <<>> =>
       resp.status = 200 /\ resp.body \in Range(RecordList)
  /\ resp.route = "/random-photo" /\ NoFilter(resp.query) /\ RecordList # <<>> =>
       resp.status = 200 /\ resp.body \in Range(RecordList)

\* C8, amended: on a non-empty list GET /api/photos/random returns an exact
\* element of the stored list; GET /random-photo without filter returns, for
\* some stored record, its filename, its url (derived as /photos/{filename}
\* when the record has none) and as uploadedAt its uploadedAt (its
\* dateUploaded when it has none), and drops dateUploaded.
C8_Projection ==
  /\ resp.route = "/api/photos/random" /\ RecordList # <<>> =>
       resp.status = 200 /\ resp.body \in Range(RecordList)
  /\ resp.route = "/random-photo" /\ NoFilter(resp.query) /\ RecordList # <<>> =>
       /\ resp.status = 200
       /\ \E p \in Range(RecordList) :
            /\ resp.body.filename = p.filename
            /\ resp.body.url =
                 IF Has(p.url) THEN p.url ELSE Url("/photos/", p.filename)
            /\ resp.body.uploadedAt =
                 IF Has(p.uploadedAt) THEN p.uploadedAt ELSE p.dateUploaded
            /\ resp.body.dateUploaded = Undefined

\* /random-photo has answered from a list of records, with an object that
\* is none of them.
C8_Witness ==
  /\ resp.route = "/random-photo"
  /\ NoFilter(resp.query)
  /\ RecordList # <<>>
  /\ resp.status = 200
  /\ resp.body \notin Range(RecordList)

C10_Step ==
  /\ resp'.route = "requireAdmin" /\ ~resp'.next =>
       /\ resp'.status \in {500, 401}
       /\ photosJson' = photosJson
       /\ uploadsDir' = uploadsDir
       /\ reqs' = reqs
  /\ resp'.route \in UploadRoutes /\ resp'.status = 400 =>
       photosJson' = photosJson /\ uploadsDir' = uploadsDir

\* C10: an upload request that does not succeed leaves the persisted list
\* as it is.  POST /api/photos/upload answered 500 (no secret) or 401 (bad
\* or missing token) has run the admin check before any file was accepted:
\* nothing is stored, written or taken into flight.  Either upload route
\* answered 400 (no file, or a part that is no image) has neither written
\* photos.json nor added a file.
C10_FailedUploadFrame == [][C10_Step]_vars

\* An admin request has been answered 401 while photos.json held a record.
C10_Witness ==
  /\ resp.route = "requireAdmin"
  /\ resp.status = 401
  /\ RecordList # <<>>

\* The integer a month or year query value stands for.
Chars1(a) == Chars(<<a>>)
Chars2(a, b) == Chars(<<a, b>>)
Chars4(a, b, c, d) == Chars(<<a, b, c, d>>)

Given(v) == v # Undefined /\ v # Chars(<<>>)

IsNumber(v) ==
  v \in {Chars1("0"), Chars1("1"), Chars2("1", "1"), Chars2("1", "2"),
         Chars2("1", "3"), Chars4("2", "0", "2", "4"),
         Chars4("2", "0", "2", "3"), Chars4("1", "9", "7", "0")}

NumberOf(v) ==
  CASE v = Chars1("0") -> 0
    [] v = Chars1("1") -> 1
    [] v = Chars2("1", "1") -> 11
    [] v = Chars2("1", "2") -> 12
    [] v = Chars2("1", "3") -> 13
    [] v = Chars4("2", "0", "2", "4") -> 2024
    [] v = Chars4("2", "0", "2", "3") -> 2023
    [] v = Chars4("1", "9", "7", "0") -> 1970

\* The effective timestamp of a record: uploadedAt, else dateUploaded, else
\* epoch zero.
EffectiveTimestamp(p) ==
  IF Has(p.uploadedAt) THEN p.uploadedAt
  ELSE IF Has(p.dateUploaded) THEN p.dateUploaded ELSE Num(0)

\* The record's effective timestamp is in calendar year y / in the month of
\* 0-based index m, in the server's time zone.
InYear(p, y) == getFullYear(NewDate(EffectiveTimestamp(p)), tz) = Num(y)
InMonth(p, m) == getMonth(NewDate(EffectiveTimestamp(p)), tz) = Num(m)

\* The month index a month filter of value mm selects.
MonthIndex(mm) == IF mm > 11 THEN mm - 1 ELSE mm

\* The record satisfies the year filter / the month filter of the query.
YearOk(p, query) ==
  Given(query.year) => IsNumber(query.year) /\ InYear(p, NumberOf(query.year))
MonthOk(p, query) ==
  Given(query.month) =>
    IsNumber(query.month) /\ InMonth(p, MonthIndex(NumberOf(query.month)))

\* The records of the list that satisfy all the filters given, in order.
Qualifying(query) ==
  LET ok(p) == YearOk(p, query) /\ MonthOk(p, query)
  IN SelectSeq(RecordList, ok)

FilteredEmpty(r) ==
  r.status = 404 /\ r.error = "No photos found for this filter"

\* C4 as stated: for every GET /random-photo with a year filter Y, in every
\* store state, an empty store included, any record returned has its
\* effective timestamp in calendar year Y, and when no record qualifies the
\* answer is 404 "No photos found for this filter".
C4_YearFilterAnyStore ==
  resp.route = "/random-photo" /\ Given(resp.query.year)
    /\ IsNumber(resp.query.year) =>
      /\ resp.status = 200 => InYear(resp.body, NumberOf(resp.query.year))
      /\ Qualifying(resp.query) = <<>> => FilteredEmpty(resp)

\* C4, amended: for every GET /random-photo with a year filter Y on a
\* non-empty store, any record returned has its effective timestamp
\* (uploadedAt, else dateUploaded, else epoch zero) in calendar year Y of the
\* server's time zone, and when no record qualifies the answer is 404 "No
\* photos found for this filter"; on an empty store the year is ignored and
\* the answer is a file of the upload directory, 404 "No photos yet" or 500.
C4_YearFilter ==
  resp.route = "/random-photo" /\ Given(resp.query.year) =>
    IF RecordList # <<>>
    THEN /\ resp.status \in {200, 404}
         /\ resp.status = 200 =>
              /\ IsNumber(resp.query.year)
              /\ InYear(resp.body, NumberOf(resp.query.year))
              /\ \E n \in DOMAIN Qualifying(resp.query) :
                   resp.body.filename = Qualifying(resp.query)[n].filename
         /\ Qualifying(resp.query) = <<>> => FilteredEmpty(resp)
         /\ resp.status = 404 => FilteredEmpty(resp)
    ELSE \/ resp.status = 200 /\ resp.body.filename \in uploadsDir
                              /\ resp.body.uploadedAt = Undefined
         \/ resp.status = 404 /\ resp.error = "No photos yet"
         \/ resp.status = 500 /\ resp.error = "Failed to read photos"

\* year=2023 has returned the legacy record or the one uploaded in the first
\* tick of January 2024 UTC, west of UTC, from a list that also holds a
\* record of another year.
C4_Witness ==
  /\ resp.route = "/random-photo"
  /\ resp.query.year = Chars4("2", "0", "2", "3")
  /\ resp.status = 200
  /\ tz = -1
  /\ Len(Qualifying(resp.query)) < Len(RecordList)

\* C5: on a non-empty store a month filter M keeps exactly the records whose
\* effective timestamp has 0-indexed month M when 0 <= M <= 11 and month M-1
\* when M > 11 (month=0 January, month=1 February, month=11 and month=12
\* both December), among those the year filter keeps; the answer is one of
\* them, or 404 "No photos found for this filter" when there is none.
C5_MonthFilter ==
  RecordList # <<>> =>
    /\ \A month \in Months \ {Undefined, Chars(<<>>)}, year \in Years :
         LET query == [month |-> month, year |-> year]
         IN filterPhotos(RecordList, query, tz) = Qualifying(query)
    /\ resp.route = "/random-photo" /\ Given(resp.query.month) =>
         /\ resp.status = 200 =>
              /\ InMonth(resp.body, MonthIndex(NumberOf(resp.query.month)))
              /\ \E n \in DOMAIN Qualifying(resp.query) :
                   resp.body.filename = Qualifying(resp.query)[n].filename
         /\ Qualifying(resp.query) = <<>> <=> FilteredEmpty(resp)

\* month=12 has returned a December record from a list that also holds a
\* record of another month.
C5_Witness ==
  /\ resp.route = "/random-photo"
  /\ resp.query.month = Chars2("1", "2")
  /\ resp.status = 200
  /\ InMonth(resp.body, 11)
  /\ Len(Qualifying(resp.query)) < Len(RecordList)

\* C6 as stated: on every non-empty list and under every year filter, GET
\* /random-photo with month=13 behaves as with month=0: the same candidate
\* set, the January records, and the same kind of outcome (a record of that
\* set, or filtered-empty).
C6_ThirteenIsZero ==
  resp.route = "/random-photo" /\ resp.query.month = Chars2("1", "3")
    /\ RecordList # <<>> =>
      LET january == [month |-> Chars1("0"), year |-> resp.query.year]
      IN /\ filterPhotos(RecordList, resp.query, tz)
              = filterPhotos(RecordList, january, tz)
         /\ FilteredEmpty(resp) <=> Qualifying(january) = <<>>

\* C6, amended: on every non-empty list and under every year filter,
\* month=13 is normalized to month index 12, which no record has: its
\* candidate set is empty and the answer is 404 "No photos found for this
\* filter".  It behaves as month=0 only where month=0 has no candidate
\* either.
C6_ThirteenIsEmpty ==
  RecordList # <<>> =>
    /\ \A year \in Years :
         filterPhotos(RecordList,
                      [month |-> Chars2("1", "3"), year |-> year], tz) = <<>>
    /\ resp.route = "/random-photo" /\ resp.query.month = Chars2("1", "3") =>
         FilteredEmpty(resp)

\* month=13 has been answered "No photos found for this filter" on a list
\* from which month=0, with the same year filter, selects a record.
C6_Witness ==
  /\ resp.route = "/random-photo"
  /\ resp.query.month = Chars2("1", "3")
  /\ FilteredEmpty(resp)
  /\ Qualifying([month |-> Chars1("0"), year |-> resp.query.year]) # <<>>

\* C7: GET /random-photo answers 404 "No photos found for this filter"
\* exactly when the record list is non-empty and no record satisfies all the
\* filters given (year and month together), and 404 "No photos yet" only
\* when the record list is empty and the upload directory holds no file with
\* an image extension; on an empty list it never answers with the
\* filtered-empty reason, whatever the filters.
C7_NotFoundReasons ==
  resp.route = "/random-photo" =>
    /\ FilteredEmpty(resp) <=>
         RecordList # <<>> /\ Qualifying(resp.query) = <<>>
    /\ resp.error = "No photos found for this filter" => resp.status = 404
    /\ resp.error = "No photos yet" =>
         /\ resp.status = 404
         /\ RecordList = <<>>
         /\ \A name \in uploadsDir : toLowerCase(name.ext) \notin ImageExts
    /\ RecordList = <<>> => resp.error # "No photos found for this filter"

\* The filtered-empty answer to a query whose year alone and whose month
\* alone each select a record of the list.
C7_Witness ==
  /\ resp.route = "/random-photo"
  /\ FilteredEmpty(resp)
  /\ Given(resp.query.year) /\ Given(resp.query.month)
  /\ Qualifying([month |-> Undefined, year |-> resp.query.year]) # <<>>
  /\ Qualifying([month |-> resp.query.month, year |-> Undefined]) # <<>>

\* What the content at photosJsonPath denotes, its formatting aside: no
\* file, something unreadable, text that is no JSON, or a JSON value.
Denoted(f) ==
  IF f.state # "file" THEN [what |-> f.state]
  ELSE IF f.text.syntax = "garbage" THEN [what |-> "no JSON"]
  ELSE [what |-> "JSON", isArray |-> f.text.isArray, items |-> f.text.items]

IsRecordArray(f) ==
  f.state = "file" /\ f.text.syntax # "garbage" /\ f.text.isArray

\* C9 as stated: for every persisted state of the store file (missing,
\* unreadable, malformed JSON, JSON that is not an array, a valid array),
\* save(load()) leaves the content denoting the same data as before.
C9_RoundTripAnyState ==
  resp.route = "save(load())" => Denoted(photosJson) = Denoted(resp.before)

\* C9, amended: when the store file holds a JSON array of records,
\* save(load()) leaves it denoting the same array, indented by two; an
\* unreadable store that cannot be written either is left as it is; a
\* missing file, a file that can be written but not read, malformed JSON and
\* JSON that is not an array are replaced by the empty array.  In every
\* state load() returns the same list after save(load()) as before.
C9_RoundTrip ==
  resp.route = "save(load())" =>
    /\ IsRecordArray(resp.before) =>
         /\ Denoted(photosJson) = Denoted(resp.before)
         /\ photosJson.text.syntax = "pretty"
    /\ resp.before = Unreadable => photosJson = resp.before
    /\ ~IsRecordArray(resp.before) /\ resp.before # Unreadable =>
         Denoted(photosJson) = [what |-> "JSON", isArray |-> TRUE, items |-> <<>>]
    /\ readPhotosList(photosJson) = readPhotosList(resp.before)

\* save(load()) has rewritten a compact array of records.
C9_Witness ==
  /\ resp.route = "save(load())"
  /\ IsRecordArray(resp.before)
  /\ resp.before.text.syntax = "compact"
  /\ resp.before.text.items # <<>>
  /\ photosJson # resp.before

====
